---- MODULE Spec2Model ----
(***************************************************************************)
(* Model of the repertoire builder (backend/repertoire.py) and of the      *)
(* deviation analyzer (backend/analyzer.py) of chess-openings.             *)
(*                                                                         *)
(* Trees are kept as functions from move paths to node records; a node's  *)
(* children dict is the insertion-ordered sequence of its keys, the child *)
(* for key m of the node at path p being the node at path Append(p, m).    *)
(* Strings stay strings: labels, SAN moves and FENs are built with \o.     *)
(*                                                                         *)
(* The chess library is modelled on the fragment of the game the move      *)
(* alphabet Moves can reach: pawn pushes and knight moves without          *)
(* disambiguation.  In that fragment no king or rook ever moves and no     *)
(* sliding piece leaves its square, so no position has a check or a pin    *)
(* and castling rights stay KQkq; legality is pseudo-legality.             *)
(***************************************************************************)
EXTENDS Integers, Sequences, FiniteSets, TLC

(* ------------------------------------------------------------------ *)
(* Bounds                                                               *)
(* ------------------------------------------------------------------ *)
\* number of add_study calls on the builder
MaxStudies == 2
\* number of moves a played game has after its longest in-book prefix
MaxTail == 2
\* largest number of replies to 1.e4 a fan study has
MaxFan == 7
\* number of analyze_game calls in flight on one repertoire
MaxCalls == 2

\* Python None where a string may stand
None == "None"
\* Python None where a square may stand (Board.ep_square)
NoSquare == <<>>
\* a raised ValueError (IllegalMoveError, AmbiguousMoveError)
ValueError == [raised |-> "ValueError"]

(* ------------------------------------------------------------------ *)
(* chess: colours, squares, SAN alphabet                                *)
(* ------------------------------------------------------------------ *)
WHITE == TRUE
BLACK == FALSE

FILE_NAMES == <<"a", "b", "c", "d", "e", "f", "g", "h">>
RANK_NAMES == <<"1", "2", "3", "4", "5", "6", "7", "8">>
Squares == (1..8) \X (1..8)

\* SAN_REGEX groups of each move text of the alphabet: piece letter
\* (None for a pawn move) and target square <<file, rank>>.  No text of the
\* alphabet has a from-file, a from-rank, a capture sign or a promotion.
SanTable ==
  [ e4  |-> [piece |-> None, to |-> <<5, 4>>],
    d4  |-> [piece |-> None, to |-> <<4, 4>>],
    Nf3 |-> [piece |-> "N",  to |-> <<6, 3>>],
    e5  |-> [piece |-> None, to |-> <<5, 5>>],
    c5  |-> [piece |-> None, to |-> <<3, 5>>],
    d5  |-> [piece |-> None, to |-> <<4, 5>>],
    e6  |-> [piece |-> None, to |-> <<5, 6>>],
    d6  |-> [piece |-> None, to |-> <<4, 6>>],
    c6  |-> [piece |-> None, to |-> <<3, 6>>],
    Nf6 |-> [piece |-> "N",  to |-> <<6, 6>>],
    Nc6 |-> [piece |-> "N",  to |-> <<3, 6>>] ]

Moves == DOMAIN SanTable

(* ------------------------------------------------------------------ *)
(* chess.Board                                                          *)
(* ------------------------------------------------------------------ *)
BackRank == <<"R", "N", "B", "Q", "K", "B", "N", "R">>
LowerSym == [R |-> "r", N |-> "n", B |-> "b", Q |-> "q", K |-> "k", P |-> "p"]
WhiteSyms == {"P", "N", "B", "R", "Q", "K"}
BlackSyms == {"p", "n", "b", "r", "q", "k"}

ColorSyms(color) == IF color = WHITE THEN WhiteSyms ELSE BlackSyms
Sym(piece_type, color) == IF color = WHITE THEN piece_type ELSE LowerSym[piece_type]

\* chess.Board(): the standard starting position
Board ==
  [ pieces |-> [sq \in Squares |->
                  CASE sq[2] = 1 -> BackRank[sq[1]]
                    [] sq[2] = 2 -> "P"
                    [] sq[2] = 7 -> "p"
                    [] sq[2] = 8 -> LowerSym[BackRank[sq[1]]]
                    [] OTHER -> None],
    turn |-> WHITE,
    castling |-> "KQkq",
    ep_square |-> NoSquare,
    halfmove_clock |-> 0,
    fullmove_number |-> 1 ]

KnightDeltas == {<<1, 2>>, <<2, 1>>, <<-1, 2>>, <<-2, 1>>,
                 <<1, -2>>, <<2, -1>>, <<-1, -2>>, <<-2, -1>>}

\* origins of the pawn pushes of the side to move that end on square to
PawnOrigins(board, to) ==
  LET dir == IF board.turn = WHITE THEN 1 ELSE -1
      home == IF board.turn = WHITE THEN 2 ELSE 7
      p == Sym("P", board.turn)
      one == <<to[1], to[2] - dir>>
      two == <<to[1], to[2] - 2 * dir>>
  IN  IF board.pieces[to] # None THEN {}
      ELSE {sq \in {one} : sq \in Squares /\ board.pieces[sq] = p}
           \cup {sq \in {two} : /\ sq \in Squares
                                /\ sq[2] = home
                                /\ board.pieces[sq] = p
                                /\ board.pieces[one] = None}

\* origins of the knight moves of the side to move that end on square to
KnightOrigins(board, to) ==
  IF board.pieces[to] \in ColorSyms(board.turn) THEN {}
  ELSE {sq \in Squares : /\ <<to[1] - sq[1], to[2] - sq[2]>> \in KnightDeltas
                         /\ board.pieces[sq] = Sym("N", board.turn)}

\* Board.parse_san: the one legal move the text names, or ValueError
\* (IllegalMoveError when none matches, AmbiguousMoveError when several do)
parse_san(board, san) ==
  LET m == SanTable[san]
      origins == IF m.piece = None THEN PawnOrigins(board, m.to)
                 ELSE KnightOrigins(board, m.to)
  IN  IF Cardinality(origins) = 1
      THEN [from_square |-> CHOOSE sq \in origins : TRUE, to_square |-> m.to]
      ELSE ValueError

\* Board.push: applies a move parse_san returned
push(board, move) ==
  LET mover == board.pieces[move.from_square]
      is_pawn == mover \in {"P", "p"}
      is_capture == board.pieces[move.to_square] # None
      is_double == is_pawn /\ (move.to_square[2] - move.from_square[2]) \in {2, -2}
  IN  [ pieces |-> [sq \in Squares |->
                      IF sq = move.from_square THEN None
                      ELSE IF sq = move.to_square THEN mover
                      ELSE board.pieces[sq]],
        turn |-> ~board.turn,
        castling |-> board.castling,
        ep_square |-> IF is_double
                      THEN <<move.from_square[1],
                             (move.from_square[2] + move.to_square[2]) \div 2>>
                      ELSE NoSquare,
        halfmove_clock |-> IF is_pawn \/ is_capture THEN 0
                           ELSE board.halfmove_clock + 1,
        fullmove_number |-> IF board.turn = BLACK THEN board.fullmove_number + 1
                            ELSE board.fullmove_number ]

\* Board.push_san: the board after the move, or ValueError
push_san(board, san) ==
  LET move == parse_san(board, san)
  IN  IF move = ValueError THEN ValueError ELSE push(board, move)

\* Board.has_legal_en_passant: a pawn of the side to move stands next to the
\* pawn that just made a double step and can take it in passing
has_legal_en_passant(board) ==
  /\ board.ep_square # NoSquare
  /\ LET rank == IF board.turn = WHITE THEN 5 ELSE 4
     IN  \E df \in {-1, 1} :
           LET sq == <<board.ep_square[1] + df, rank>>
           IN  sq \in Squares /\ board.pieces[sq] = Sym("P", board.turn)

RECURSIVE RankFen(_, _, _, _)
\* one rank of Board.board_fen: piece symbols with runs of empty squares counted
RankFen(board, rank, file, empty) ==
  IF file > 8 THEN (IF empty > 0 THEN ToString(empty) ELSE "")
  ELSE LET s == board.pieces[<<file, rank>>]
       IN  IF s = None THEN RankFen(board, rank, file + 1, empty + 1)
           ELSE (IF empty > 0 THEN ToString(empty) ELSE "") \o s
                \o RankFen(board, rank, file + 1, 0)

RECURSIVE BoardFen(_, _)
\* Board.board_fen: ranks 8 down to 1 joined by "/"
BoardFen(board, rank) ==
  IF rank = 1 THEN RankFen(board, 1, 1, 0)
  ELSE RankFen(board, rank, 1, 0) \o "/" \o BoardFen(board, rank - 1)

\* Board.fen(): placement, turn, castling, legal en passant square, clocks
fen(board) ==
  BoardFen(board, 8) \o " "
  \o (IF board.turn = WHITE THEN "w" ELSE "b") \o " "
  \o board.castling \o " "
  \o (IF has_legal_en_passant(board)
      THEN FILE_NAMES[board.ep_square[1]] \o RANK_NAMES[board.ep_square[2]]
      ELSE "-") \o " "
  \o ToString(board.halfmove_clock) \o " "
  \o ToString(board.fullmove_number)


(* ------------------------------------------------------------------ *)
(* str methods                                                          *)
(* ------------------------------------------------------------------ *)
UPPERCASE == "ABCDEFGHIJKLMNOPQRSTUVWXYZ"
LOWERCASE == "abcdefghijklmnopqrstuvwxyz"

Char(s, i) == SubSeq(s, i, i)

RECURSIVE Find(_, _, _)
\* str.find from 1-based position i: index of the first c in s, 0 when absent
Find(s, c, i) ==
  IF i > Len(s) THEN 0
  ELSE IF Char(s, i) = c THEN i
  ELSE Find(s, c, i + 1)

RECURSIVE LowerFrom(_, _)
\* the characters of s from position i on, in lower case
LowerFrom(s, i) ==
  IF i > Len(s) THEN ""
  ELSE (IF Find(UPPERCASE, Char(s, i), 1) = 0 THEN Char(s, i)
        ELSE Char(LOWERCASE, Find(UPPERCASE, Char(s, i), 1)))
       \o LowerFrom(s, i + 1)

\* str.lower
lower(s) == LowerFrom(s, 1)

RECURSIVE FirstNonSpace(_, _)
\* the position of the first character of s from i on that is no space
FirstNonSpace(s, i) ==
  IF i <= Len(s) /\ Char(s, i) = " " THEN FirstNonSpace(s, i + 1) ELSE i

RECURSIVE LastNonSpace(_, _)
\* the position of the last character of s up to i that is no space
LastNonSpace(s, i) ==
  IF i >= 1 /\ Char(s, i) = " " THEN LastNonSpace(s, i - 1) ELSE i

\* str.strip
strip(s) == SubSeq(s, FirstNonSpace(s, 1), LastNonSpace(s, Len(s)))

RECURSIVE ReplaceFrom(_, _, _, _)
\* the characters of s from position i on, each old turned into new
ReplaceFrom(s, i, old, new) ==
  IF i > Len(s) THEN ""
  ELSE (IF Char(s, i) = old THEN new ELSE Char(s, i))
       \o ReplaceFrom(s, i + 1, old, new)

\* str.replace of one character by another
replace(s, old, new) == ReplaceFrom(s, 1, old, new)

\* chapter_name.split(":", 1)[1]
AfterFirstColon(s) == SubSeq(s, Find(s, ":", 1) + 1, Len(s))

\* truthiness of an Optional[str]
Truthy(s) == s # None /\ s # ""

\* the one element of a set of one element; {e(x) : x \in {v}} computes v
\* once and hands its value to e
Only(S) == CHOOSE r \in S : TRUE

RECURSIVE ReplayFrom(_, _, _)
\* the board after pushing the SAN moves sans[i..], or ValueError
ReplayFrom(board, sans, i) ==
  IF i > Len(sans) THEN board
  ELSE Only({IF pushed = ValueError THEN ValueError
             ELSE ReplayFrom(pushed, sans, i + 1) :
               pushed \in {push_san(board, sans[i])}})

\* the board after pushing a list of SAN moves, or ValueError
Replay(board, sans) == ReplayFrom(board, sans, 1)

(* ------------------------------------------------------------------ *)
(* Study PGNs                                                           *)
(*                                                                      *)
(* A study is a list of chapters.  A chapter has its Event and Site     *)
(* headers ("?" when the PGN has none), the moves that lead from the    *)
(* starting position to the position of its FEN header (none without    *)
(* the header) and its movetext as a list of lines, the mainline first; *)
(* every line is legal from the chapter's starting position.            *)
(* ------------------------------------------------------------------ *)
FanReplies == <<"e5", "c5", "Nf6", "d5", "e6", "d6", "Nc6", "c6">>

FanLines(first, k) ==
  [i \in 1..(IF k < Len(FanReplies) THEN k ELSE Len(FanReplies)) |->
     <<first, FanReplies[i]>>]

OpenPgn ==
  << [Event |-> "Open Game: Main line", Site |-> "?", setup |-> <<>>,
      lines |-> << <<"e4", "e5", "Nf3">> >>] >>

SicilianPgn ==
  << [Event |-> "Sicilian", Site |-> "?", setup |-> <<>>,
      lines |-> << <<"e4", "c5", "Nf3">>, <<"e4", "c5", "d4">> >>],
     [Event |-> "?", Site |-> "?", setup |-> <<>>,
      lines |-> << <<"e4", "e5", "d4">>, <<"d4", "e5", "e4">> >>],
     [Event |-> "", Site |-> "", setup |-> <<"e4">>,
      lines |-> << <<"e5", "Nf3">>, <<"c5">> >>] >>

\* a study of one chapter: 1.e4 with its first k replies as variations
FanPgn(k) ==
  << [Event |-> "Fan: e4", Site |-> "?", setup |-> <<>>,
      lines |-> FanLines("e4", k)] >>

\* the add_study calls the model draws from: (pgn, opening_name, study_name)
StudyCatalog ==
  { [pgn |-> OpenPgn, opening_name |-> "Open Game", study_name |-> "Open Game"],
    [pgn |-> SicilianPgn, opening_name |-> "Sicilian", study_name |-> None] }

\* chess.pgn.Game.board(): the position the chapter starts from
GameBoard(game) == Replay(Board, game.setup)

RECURSIVE VariationTexts(_, _, _, _)
\* the next move texts after the moves of node in lines k.. of the movetext,
\* each once, in order of appearance
VariationTexts(game, node, k, seen) ==
  IF k > Len(game.lines) THEN <<>>
  ELSE LET line == game.lines[k]
           n == Len(node)
           hit == /\ Len(line) > n
                  /\ SubSeq(line, 1, n) = node
                  /\ line[n + 1] \notin seen
       IN  IF hit
           THEN <<line[n + 1]>> \o VariationTexts(game, node, k + 1, seen \cup {line[n + 1]})
           ELSE VariationTexts(game, node, k + 1, seen)

\* GameNode.board(): the position after the moves of node
NodeBoard(game, node) == Replay(GameBoard(game), node)

\* GameNode.variations, as read by chess.pgn.read_game: each child's move
Variations(game, node) ==
  LET texts == VariationTexts(game, node, 1, {})
  IN  [i \in 1..Len(texts) |-> parse_san(NodeBoard(game, node), texts[i])]

\* Board.san: the text of a legal move (no check, mate or capture in the
\* fragment, so the text is the bare piece letter and target square)
san(board, move) == CHOOSE s \in Moves : parse_san(board, s) = move

\* the GameNode a variation leads to, named by the texts of its moves
ChildNode(node, move_san) == Append(node, move_san)

(* ------------------------------------------------------------------ *)
(* repertoire.py                                                        *)
(* ------------------------------------------------------------------ *)
\* RepertoireNode(...): a node with no children yet
RepertoireNode(opening_name, study_name, is_your_turn) ==
  [ children |-> <<>>,
    opening_name |-> opening_name,
    study_name |-> study_name,
    is_your_turn |-> is_your_turn ]

\* a tree holding only its root, RepertoireNode() with the field defaults
EmptyTree == (<<>> :> RepertoireNode(None, None, FALSE))

\* the keys of node.children as a set
ChildKeys(tree, node) == {tree[node].children[i] : i \in 1..Len(tree[node].children)}

\* Repertoire.get_tree
get_tree(repertoire, color) ==
  IF color = WHITE THEN repertoire.white_tree ELSE repertoire.black_tree

\* VisitChild that leaves the labels of a child it finds alone
VisitChild_KeepsLabels(tree, node, move_san, opening_name, study_name, is_your_turn) ==
  IF move_san \notin ChildKeys(tree, node)
  THEN [tree EXCEPT ![node].children = Append(@, move_san)]
       @@ (Append(node, move_san) :> RepertoireNode(opening_name, study_name, is_your_turn))
  ELSE tree

\* VisitChild that adds the move to the children on every visit
VisitChild_AppendsAlways(tree, node, move_san, opening_name, study_name, is_your_turn) ==
  LET child == Append(node, move_san)
      inserted ==
        IF move_san \notin ChildKeys(tree, node)
        THEN [tree EXCEPT ![node].children = Append(@, move_san)]
             @@ (child :> RepertoireNode(opening_name, study_name, is_your_turn))
        ELSE [tree EXCEPT ![node].children = Append(@, move_san)]
  IN  [inserted EXCEPT ![child].opening_name = opening_name,
                       ![child].study_name = study_name]

\* VisitChild that puts a new node in the place of a child it finds
VisitChild_ReplacesChild(tree, node, move_san, opening_name, study_name, is_your_turn) ==
  LET child == Append(node, move_san)
  IN  IF move_san \notin ChildKeys(tree, node)
      THEN [tree EXCEPT ![node].children = Append(@, move_san)]
           @@ (child :> RepertoireNode(opening_name, study_name, is_your_turn))
      ELSE [tree EXCEPT ![child] = RepertoireNode(opening_name, study_name, is_your_turn)]

\* lines 141-149 and 152-160 of _process_node on one tree: the child for
\* move_san is created when missing, then its labels are overwritten
VisitChild(tree, node, move_san, opening_name, study_name, is_your_turn) ==
  LET child == Append(node, move_san)
      inserted ==
        IF move_san \notin ChildKeys(tree, node)
        THEN [tree EXCEPT ![node].children = Append(@, move_san)]
             @@ (child :> RepertoireNode(opening_name, study_name, is_your_turn))
        ELSE tree
  IN  [inserted EXCEPT ![child].opening_name = opening_name,
                       ![child].study_name = study_name]

RECURSIVE ProcessVariations(_, _, _, _, _, _, _, _)
\* the loop of _process_node over node.variations[k..], with the recursive
\* call on each variation; trees is the pair of trees being filled and
\* cursor the path of the white_tree / black_tree arguments
ProcessVariations(game, node, k, trees, cursor, turn, opening_name, study_name) ==
  IF k > Len(Variations(game, node)) THEN trees
  ELSE Only({Only({Only({
         ProcessVariations(game, node, k + 1, below, cursor, turn,
                           opening_name, study_name) :
           below \in {ProcessVariations(game, ChildNode(node, move_san), 1,
                                        visited, Append(cursor, move_san), ~turn,
                                        opening_name, study_name)}}) :
           visited \in
             {[white_tree |-> VisitChild(trees.white_tree, cursor, move_san,
                                         opening_name, study_name, turn = WHITE),
               black_tree |-> VisitChild(trees.black_tree, cursor, move_san,
                                         opening_name, study_name, turn = BLACK)]}}) :
           move_san \in {san(NodeBoard(game, node), Variations(game, node)[k])}})

\* RepertoireBuilder._process_node
_process_node(game, node, trees, cursor, turn, opening_name, study_name) ==
  ProcessVariations(game, node, 1, trees, cursor, turn, opening_name, study_name)

\* RepertoireBuilder._process_game
_process_game(game, trees, opening_name, study_name) ==
  _process_node(game, <<>>, trees, <<>>, WHITE, opening_name, study_name)

\* the chapter name _process_study takes from the headers of a chapter
ChapterName(game, study_name) ==
  LET chapter_name == IF game.Event # "" THEN game.Event
                      ELSE IF game.Site # "" THEN game.Site
                      ELSE study_name
  IN  IF Find(chapter_name, ":", 1) > 0
      THEN strip(AfterFirstColon(chapter_name))
      ELSE chapter_name

RECURSIVE ProcessChapters(_, _, _, _, _)
\* the read_game loop of _process_study from chapter k of the PGN on
ProcessChapters(pgn, k, trees, opening_name, study_name) ==
  IF k > Len(pgn) THEN trees
  ELSE LET full_chapter_name == study_name \o " - " \o ChapterName(pgn[k], study_name)
       IN  Only({ProcessChapters(pgn, k + 1, processed, opening_name, study_name) :
                   processed \in {_process_game(pgn[k], trees, opening_name,
                                                full_chapter_name)}})

\* RepertoireBuilder._process_study
_process_study(pgn, trees, opening_name, study_name) ==
  ProcessChapters(pgn, 1, trees, opening_name, study_name)

RECURSIVE ProcessStudies(_, _, _)
\* the loop of build() over self._studies[k..]
ProcessStudies(studies, k, trees) ==
  IF k > Len(studies) THEN trees
  ELSE Only({ProcessStudies(studies, k + 1, processed) :
               processed \in {_process_study(studies[k][1], trees,
                                             studies[k][2], studies[k][3])}})

\* position_index[fen] = value
SetItem(index, key, value) ==
  IF key \in DOMAIN index THEN [index EXCEPT ![key] = value]
  ELSE index @@ (key :> value)

RECURSIVE TraverseChildren(_, _, _, _, _)
RECURSIVE traverse_tree(_, _, _, _)
\* TraverseChildren that goes into a child whose move does not parse, on the
\* board as it stands
TraverseChildren_DescendsAnyway(tree, node, k, board, index) ==
  IF k > Len(tree[node].children) THEN index
  ELSE Only({Only({TraverseChildren(tree, node, k + 1, board, below) :
                     below \in
                       {Only({traverse_tree(tree, Append(node, tree[node].children[k]),
                                           pushed, index) :
                                pushed \in {IF move = ValueError THEN board
                                            ELSE push(board, move)}})}}) :
               move \in {parse_san(board, tree[node].children[k])}})

\* traverse_tree of _build_fen_index: indexes the node, then its children
traverse_tree(tree, node, board, index) ==
  Only({TraverseChildren(tree, node, 1, board, indexed) :
          indexed \in
            {IF fen(board) # "" /\ Truthy(tree[node].opening_name)
             THEN SetItem(index, fen(board),
                          <<tree[node].opening_name, tree[node].study_name,
                            Len(tree[node].children)>>)
             ELSE index}})

\* the loop of traverse_tree over node.children.items() from the k-th on;
\* a child whose move does not parse on the board is passed over
TraverseChildren(tree, node, k, board, index) ==
  IF k > Len(tree[node].children) THEN index
  ELSE Only({Only({TraverseChildren(tree, node, k + 1, board, below) :
                     below \in
                       {IF move = ValueError THEN index
                        ELSE Only({traverse_tree(tree, Append(node, tree[node].children[k]),
                                                 pushed, index) :
                                     pushed \in {push(board, move)}})}}) :
               move \in {parse_san(board, tree[node].children[k])}})

\* RepertoireBuilder._build_fen_index
_build_fen_index(repertoire) ==
  traverse_tree(repertoire.white_tree, <<>>, Board, repertoire.position_index)

\* RepertoireBuilder.build: the repertoire it returns
build(studies, repertoire) ==
  Only({[white_tree |-> trees.white_tree,
         black_tree |-> trees.black_tree,
         position_index |->
           _build_fen_index([repertoire EXCEPT !.white_tree = trees.white_tree])] :
          trees \in {ProcessStudies(studies, 1,
                       [white_tree |-> repertoire.white_tree,
                        black_tree |-> repertoire.black_tree])}})

(* ------------------------------------------------------------------ *)
(* analyzer.py                                                          *)
(* ------------------------------------------------------------------ *)
\* Python None where an int may stand (DeviationResult.variation_count);
\* a count n is then <<n>>
NoCount == <<>>
Count(n) == <<n>>

\* what a call comes to: return None, return a dict, or a raised exception
ReturnNone == [returned |-> "None"]
ReturnDict(d) == [returned |-> "dict", value |-> d]
KeyError == [raised |-> "KeyError"]

\* DeviationResult(...).to_dict()
to_dict(game_url, opening_name, result_type, move_number, user_color, game_date, study_name, your_move, correct_move, opponent_move, position, variation_count) ==
  [ game_url |-> game_url,
    opening_name |-> opening_name,
    result_type |-> result_type,
    move_number |-> move_number,
    user_color |-> user_color,
    game_date |-> game_date,
    study_name |-> study_name,
    your_move |-> your_move,
    correct_move |-> correct_move,
    opponent_move |-> opponent_move,
    fen |-> position,
    variation_count |-> variation_count,
    analysis_url |-> IF Truthy(position)
                     THEN "https://lichess.org/analysis/" \o replace(position, " ", "_")
                     ELSE None ]

RECURSIVE JoinNumbers(_, _)
\* ", ".join([str(i+1) for i in range(n)]) from index i on
JoinNumbers(i, n) ==
  IF i >= n THEN ""
  ELSE ToString(i + 1) \o (IF i + 1 < n THEN ", " ELSE "") \o JoinNumbers(i + 1, n)

\* FormatCorrectMove that puts the ellipsis from five variations on
FormatCorrectMove_EllipsisAtFive(correct_moves) ==
  LET variation_count == Len(correct_moves)
  IN  IF variation_count = 1 THEN correct_moves[1]
      ELSE LET variation_nums ==
                 JoinNumbers(0, IF variation_count < 5 THEN variation_count ELSE 5)
                 \o (IF variation_count >= 5 THEN "..." ELSE "")
           IN  "Multiple variations (" \o variation_nums \o ")"

\* lines 108-115: the display of the moves the repertoire has at the node
FormatCorrectMove(correct_moves) ==
  LET variation_count == Len(correct_moves)
  IN  IF variation_count = 1 THEN correct_moves[1]
      ELSE LET variation_nums ==
                 JoinNumbers(0, IF variation_count < 5 THEN variation_count ELSE 5)
                 \o (IF variation_count > 5 THEN "..." ELSE "")
           IN  "Multiple variations (" \o variation_nums \o ")"

(* ------------------------------------------------------------------ *)
(* game.get("date") and datetime.fromtimestamp(...).strftime("%Y-%m-%d") *)
(*                                                                      *)
(* A date value is written as Python writes it with repr(): an int as   *)
(* its decimal digits with a leading "-" when negative (a Python int    *)
(* has no width; the model's integers have 32 bits), a str between      *)
(* single quotes.  The local time zone of the process is UTC, and the   *)
(* C library is glibc with a 64-bit time_t.                             *)
(* ------------------------------------------------------------------ *)
DIGITS == "0123456789"
DigitValue(c) == Find(DIGITS, c, 1) - 1

\* game.get("date")
GameDate(game) == IF "date" \in DOMAIN game THEN game.date ELSE None

\* truth value of game.get("date"): None, 0 and '' are false
DateTruthy(v) == v \notin {None, "0", "''"}

IsInt(v) == Char(v, 1) # "'"
IsNegative(v) == Char(v, 1) = "-"
Magnitude(v) == IF IsNegative(v) THEN SubSeq(v, 2, Len(v)) ELSE v

RECURSIVE DigitsCompare(_, _, _)
\* -1, 0 or 1 as the digit string a is below, equal to or above b from
\* position i on; a and b have the same length
DigitsCompare(a, b, i) ==
  IF i > Len(a) THEN 0
  ELSE IF DigitValue(Char(a, i)) < DigitValue(Char(b, i)) THEN -1
  ELSE IF DigitValue(Char(a, i)) > DigitValue(Char(b, i)) THEN 1
  ELSE DigitsCompare(a, b, i + 1)

\* a <= b for two natural numbers written in digits without leading zeros
MagnitudeLeq(a, b) ==
  \/ Len(a) < Len(b)
  \/ Len(a) = Len(b) /\ DigitsCompare(a, b, 1) <= 0

\* -low <= v <= high for an int v, low and high written in digits
Within(v, low, high) ==
  IF IsNegative(v) THEN MagnitudeLeq(Magnitude(v), low) ELSE MagnitudeLeq(v, high)

\* the range of a C long long, that of the years glibc's localtime can fill
\* into struct tm, and that of the datetime the call can build (years 1 to
\* 9999, less the first day, which the probe for a repeated hour leaves)
LLONG_MIN == "9223372036854775808"
LLONG_MAX == "9223372036854775807"
LOCALTIME_MIN == "67768040609740800"
LOCALTIME_MAX == "67768036191676799"
DATETIME_MIN == "62135510400"
DATETIME_MAX == "253402300799"

\* the exception datetime.fromtimestamp raises on v, "" when it raises none
FromTimestampError(v) ==
  IF ~IsInt(v) THEN "TypeError"
  ELSE IF ~Within(v, LLONG_MIN, LLONG_MAX) THEN "OverflowError"
  ELSE IF ~Within(v, LOCALTIME_MIN, LOCALTIME_MAX) THEN "OSError"
  ELSE IF ~Within(v, DATETIME_MIN, DATETIME_MAX) THEN "ValueError"
  ELSE ""

SECONDS_PER_DAY == 86400

RECURSIVE DivMod(_, _, _, _, _)
\* quotient and remainder of the number written in digits by divisor, by
\* long division from digit i on with q and r in hand
DivMod(digits, i, divisor, q, r) ==
  IF i > Len(digits) THEN <<q, r>>
  ELSE Only({DivMod(digits, i + 1, divisor, q * 10 + (part \div divisor), part % divisor) :
               part \in {r * 10 + DigitValue(Char(digits, i))}})

\* floor(v / 86400): the day of the timestamp, counted from 1970-01-01
EpochDay(v) ==
  LET qr == DivMod(Magnitude(v), 1, SECONDS_PER_DAY, 0, 0)
  IN  IF ~IsNegative(v) THEN qr[1]
      ELSE IF qr[2] = 0 THEN -qr[1]
      ELSE -qr[1] - 1

\* the date of the proleptic Gregorian calendar a day count stands for
\* (the date part of what localtime fills in for datetime.fromtimestamp)
fromtimestamp(v) ==
  LET z == EpochDay(v) + 719468
      era == z \div 146097
      doe == z - era * 146097
      yoe == (doe - (doe \div 1460) + (doe \div 36524) - (doe \div 146096)) \div 365
      doy == doe - (365 * yoe + (yoe \div 4) - (yoe \div 100))
      mp == (5 * doy + 2) \div 153
      day == doy - ((153 * mp + 2) \div 5) + 1
      month == IF mp < 10 THEN mp + 3 ELSE mp - 9
      year == yoe + era * 400 + (IF month <= 2 THEN 1 ELSE 0)
  IN  [year |-> year, month |-> month, day |-> day]

\* %m and %d: two digits
TwoDigits(n) == IF n < 10 THEN "0" \o ToString(n) ELSE ToString(n)

\* strftime("%Y-%m-%d"); glibc writes %Y without padding
strftime(date) ==
  ToString(date.year) \o "-" \o TwoDigits(date.month) \o "-" \o TwoDigits(date.day)

\* the exceptions lines 122 and 145 catch
CaughtErrors == {"ValueError", "TypeError", "OSError"}

\* lines 119-123 and 142-146 let an exception of fromtimestamp through
DateRaises(game) ==
  /\ DateTruthy(GameDate(game))
  /\ FromTimestampError(GameDate(game)) \notin CaughtErrors \cup {""}

\* lines 118-123 and 141-146: game_date when no exception gets through
FormatGameDate(game) ==
  IF ~DateTruthy(GameDate(game)) THEN None
  ELSE IF FromTimestampError(GameDate(game)) # "" THEN None
  ELSE strftime(fromtimestamp(GameDate(game)))

\* an exception that is not caught ends the call, else the result is returned
ReturnResult(game, d) ==
  IF DateRaises(game)
  THEN [raised |-> FromTimestampError(GameDate(game))]
  ELSE ReturnDict(d)

\* OutOfBook that takes the move number from the length of the game
OutOfBook_MoveNumberFromLength(game, tree, user_color, i, current_node, board) ==
  LET move_san == game.moves[i + 1]
      is_white_move == (i % 2 = 0)
      is_your_move == \/ (is_white_move /\ user_color = WHITE)
                      \/ (~is_white_move /\ user_color = BLACK)
      current_move_number == (Len(game.moves) \div 2) + 1
      correct_moves == tree[current_node].children
      variation_count == Len(correct_moves)
      opening_name == IF Truthy(tree[current_node].opening_name)
                      THEN tree[current_node].opening_name ELSE "Unknown"
      color_name == IF user_color = WHITE THEN "white" ELSE "black"
  IN  IF is_your_move
      THEN IF correct_moves # <<>>
           THEN ReturnResult(game, to_dict(game.url, opening_name, "deviation",
                                         current_move_number, color_name,
                                         FormatGameDate(game), tree[current_node].study_name,
                                         move_san, FormatCorrectMove(correct_moves), None,
                                         fen(board), Count(variation_count)))
           \* no return: line 161 looks move_san up in current_node.children
           ELSE KeyError
      ELSE ReturnResult(game, to_dict(game.url, opening_name, "opponent_left_book",
                                    current_move_number, color_name,
                                    FormatGameDate(game), tree[current_node].study_name,
                                    None, None, move_san, fen(board), NoCount))

\* OutOfBook that takes the odd indices for the moves of White
OutOfBook_OddIsWhite(game, tree, user_color, i, current_node, board) ==
  LET move_san == game.moves[i + 1]
      is_white_move == (i % 2 = 1)
      is_your_move == \/ (is_white_move /\ user_color = WHITE)
                      \/ (~is_white_move /\ user_color = BLACK)
      current_move_number == (i \div 2) + 1
      correct_moves == tree[current_node].children
      variation_count == Len(correct_moves)
      opening_name == IF Truthy(tree[current_node].opening_name)
                      THEN tree[current_node].opening_name ELSE "Unknown"
      color_name == IF user_color = WHITE THEN "white" ELSE "black"
  IN  IF is_your_move
      THEN IF correct_moves # <<>>
           THEN ReturnResult(game, to_dict(game.url, opening_name, "deviation",
                                         current_move_number, color_name,
                                         FormatGameDate(game), tree[current_node].study_name,
                                         move_san, FormatCorrectMove(correct_moves), None,
                                         fen(board), Count(variation_count)))
           \* no return: line 161 looks move_san up in current_node.children
           ELSE KeyError
      ELSE ReturnResult(game, to_dict(game.url, opening_name, "opponent_left_book",
                                    current_move_number, color_name,
                                    FormatGameDate(game), tree[current_node].study_name,
                                    None, None, move_san, fen(board), NoCount))

\* the body of the loop of analyze_game at index i when move_san is not among
\* the children of current_node
OutOfBook(game, tree, user_color, i, current_node, board) ==
  LET move_san == game.moves[i + 1]
      is_white_move == (i % 2 = 0)
      is_your_move == \/ (is_white_move /\ user_color = WHITE)
                      \/ (~is_white_move /\ user_color = BLACK)
      current_move_number == (i \div 2) + 1
      correct_moves == tree[current_node].children
      variation_count == Len(correct_moves)
      opening_name == IF Truthy(tree[current_node].opening_name)
                      THEN tree[current_node].opening_name ELSE "Unknown"
      color_name == IF user_color = WHITE THEN "white" ELSE "black"
  IN  IF is_your_move
      THEN IF correct_moves # <<>>
           THEN ReturnResult(game, to_dict(game.url, opening_name, "deviation",
                                         current_move_number, color_name,
                                         FormatGameDate(game), tree[current_node].study_name,
                                         move_san, FormatCorrectMove(correct_moves), None,
                                         fen(board), Count(variation_count)))
           \* no return: line 161 looks move_san up in current_node.children
           ELSE KeyError
      ELSE ReturnResult(game, to_dict(game.url, opening_name, "opponent_left_book",
                                    current_move_number, color_name,
                                    FormatGameDate(game), tree[current_node].study_name,
                                    None, None, move_san, fen(board), NoCount))

RECURSIVE Walk_ReadsPastEnd(_, _, _, _, _, _)
\* Walk whose loop runs one index too far and reads moves[len(moves)]
Walk_ReadsPastEnd(game, tree, user_color, i, current_node, board) ==
  IF i > Len(game.moves) THEN ReturnNone
  ELSE IF i = Len(game.moves) THEN [raised |-> "IndexError"]
  ELSE LET move_san == game.moves[i + 1]
       IN  IF move_san \notin ChildKeys(tree, current_node)
           THEN OutOfBook(game, tree, user_color, i, current_node, board)
           ELSE Only({IF pushed = ValueError THEN ReturnNone
                      ELSE Walk_ReadsPastEnd(game, tree, user_color, i + 1,
                                             Append(current_node, move_san), pushed) :
                        pushed \in {push_san(board, move_san)}})

RECURSIVE Walk_KeepsBoard(_, _, _, _, _, _)
\* Walk that goes down the tree without making the move on its board
Walk_KeepsBoard(game, tree, user_color, i, current_node, board) ==
  IF i >= Len(game.moves) THEN ReturnNone
  ELSE LET move_san == game.moves[i + 1]
       IN  IF move_san \notin ChildKeys(tree, current_node)
           THEN OutOfBook(game, tree, user_color, i, current_node, board)
           ELSE Only({IF pushed = ValueError THEN ReturnNone
                      ELSE Walk_KeepsBoard(game, tree, user_color, i + 1,
                                           Append(current_node, move_san), board) :
                        pushed \in {push_san(board, move_san)}})

RECURSIVE Walk(_, _, _, _, _, _)
\* the for loop of analyze_game from index i (0-based) on
Walk(game, tree, user_color, i, current_node, board) ==
  IF i >= Len(game.moves) THEN ReturnNone
  ELSE LET move_san == game.moves[i + 1]
       IN  IF move_san \notin ChildKeys(tree, current_node)
           THEN OutOfBook(game, tree, user_color, i, current_node, board)
           ELSE Only({IF pushed = ValueError THEN ReturnNone
                      ELSE Walk(game, tree, user_color, i + 1,
                                Append(current_node, move_san), pushed) :
                        pushed \in {push_san(board, move_san)}})

\* UserColor that compares the names as they are written
UserColor_CaseSensitive(game, username) ==
  IF game.white = username THEN WHITE ELSE BLACK

\* lines 69-75: the colour the user played
UserColor(game, username) ==
  IF lower(game.white) = lower(username) THEN WHITE ELSE BLACK

\* analyze_game without the check of the first move
analyze_game_NoGate(repertoire, game, username) ==
  IF game.moves = <<>> THEN ReturnNone
  ELSE LET user_color == UserColor(game, username)
           tree == get_tree(repertoire, user_color)
       IN  Walk(game, tree, user_color, 0, <<>>, Board)

\* DeviationAnalyzer.analyze_game
analyze_game(repertoire, game, username) ==
  IF game.moves = <<>> THEN ReturnNone
  ELSE LET user_color == UserColor(game, username)
           tree == get_tree(repertoire, user_color)
           first_move == game.moves[1]
       IN  IF first_move # "" /\ first_move \notin ChildKeys(tree, <<>>)
           THEN ReturnNone
           ELSE Walk(game, tree, user_color, 0, <<>>, Board)

(* ------------------------------------------------------------------ *)
(* analyzer.py: analyze_game pass by pass                               *)
(* ------------------------------------------------------------------ *)
\* no game, and no result yet
NoGame == [moves |-> <<>>, white |-> "", black |-> "", url |-> ""]
NoOutcome == [returned |-> "nothing"]

\* the locals of an analyze_game call: where it stands ("out" before the call
\* and after its caller took the result, "loop" at the head of the for loop of
\* line 91, "done" once it returned or raised), its arguments, user_color,
\* the loop index i, current_node, board, and what the call came to
Frame(at, g, user, user_color, i, current_node, board, result) ==
  [at |-> at, game |-> g, username |-> user, user_color |-> user_color,
   i |-> i, current_node |-> current_node, board |-> board, result |-> result]

NoFrame == Frame("out", NoGame, "", WHITE, 0, <<>>, Board, NoOutcome)

\* the callers that analyze games on one repertoire at the same time
Callers == 1..MaxCalls

NoCalls == [c \in Callers |-> NoFrame]

\* lines 64-89: analyze_game from its entry to the head of the loop
Enter(repertoire, g, user) ==
  IF g.moves = <<>>
  THEN Frame("done", g, user, WHITE, 0, <<>>, Board, ReturnNone)
  ELSE LET user_color == UserColor(g, user)
           tree == get_tree(repertoire, user_color)
           first_move == g.moves[1]
       IN  IF first_move # "" /\ first_move \notin ChildKeys(tree, <<>>)
           THEN Frame("done", g, user, user_color, 0, <<>>, Board, ReturnNone)
           ELSE Frame("loop", g, user, user_color, 0, <<>>, Board, NoOutcome)

\* Descend that takes the child out of the dict it finds it in
Descend_Pops(repertoire, user_color, current_node, move_san) ==
  LET tree == get_tree(repertoire, user_color)
      kept(k) == k # move_san
      others == SelectSeq(tree[current_node].children, kept)
      popped == [tree EXCEPT ![current_node].children = others]
  IN  [repertoire |-> IF user_color = WHITE
                      THEN [repertoire EXCEPT !.white_tree = popped]
                      ELSE [repertoire EXCEPT !.black_tree = popped],
       current_node |-> ChildNode(current_node, move_san)]

\* line 161, current_node = current_node.children[move_san]: the repertoire
\* after the lookup and the node the lookup gives
Descend(repertoire, user_color, current_node, move_san) ==
  [repertoire |-> repertoire,
   current_node |-> ChildNode(current_node, move_san)]

\* lines 91-171: one pass of the for loop of a call standing at its head, or
\* the return of line 171 when the moves are used up; the repertoire after
\* the pass and the frame after it
Iterate(repertoire, frame) ==
  LET g == frame.game
      user == frame.username
      user_color == frame.user_color
      i == frame.i
      current_node == frame.current_node
      board == frame.board
      tree == get_tree(repertoire, user_color)
  IN  IF i >= Len(g.moves)
      THEN [repertoire |-> repertoire,
            frame |-> Frame("done", g, user, user_color, i, current_node, board,
                            ReturnNone)]
      ELSE IF g.moves[i + 1] \notin ChildKeys(tree, current_node)
      THEN [repertoire |-> repertoire,
            frame |-> Frame("done", g, user, user_color, i, current_node, board,
                            OutOfBook(g, tree, user_color, i, current_node,
                                      board))]
      ELSE Only({
        [repertoire |-> found.repertoire,
         frame |-> IF pushed = ValueError
                   THEN Frame("done", g, user, user_color, i,
                              found.current_node, board, ReturnNone)
                   ELSE Frame("loop", g, user, user_color, i + 1,
                              found.current_node, pushed, NoOutcome)] :
          found \in {Descend(repertoire, user_color, current_node,
                             g.moves[i + 1])},
          pushed \in {push_san(board, g.moves[i + 1])}})

(* ------------------------------------------------------------------ *)
(* chess_com.py: the opening-name filter                                *)
(*                                                                      *)
(* The names of the model have the space as their only whitespace; the  *)
(* lines the function prints are left out.                              *)
(* ------------------------------------------------------------------ *)
RECURSIVE SplitFrom(_, _, _, _)
\* the parts of s from position start on, cut at every sep found from i on
SplitFrom(s, sep, i, start) ==
  IF i > Len(s) THEN <<SubSeq(s, start, Len(s))>>
  ELSE IF Char(s, i) = sep
  THEN <<SubSeq(s, start, i - 1)>> \o SplitFrom(s, sep, i + 1, i + 1)
  ELSE SplitFrom(s, sep, i + 1, start)

NonEmpty(word) == word # ""

\* str.split(): the words between runs of whitespace
split(s) == SelectSeq(SplitFrom(s, " ", 1, 1), NonEmpty)

\* split_hyphen that leaves the part whole
split_hyphen_Whole(s) == <<s>>

\* str.split('-'): the parts between hyphens, empty ones included
split_hyphen(s) == SplitFrom(s, "-", 1, 1)

\* needle in hay
Contains(hay, needle) ==
  \E i \in 1..(Len(hay) - Len(needle) + 1) :
    SubSeq(hay, i, i + Len(needle) - 1) = needle

\* normalize_word (lines 221-225)
normalize_word(word) ==
  IF Len(word) > 3 /\ Char(word, Len(word)) = "s"
  THEN SubSeq(word, 1, Len(word) - 1)
  ELSE word

ignore_words ==
  {"opening", "defense", "defence", "attack", "game", "variation", "system",
   "the", "a", "an", "for", "by", "in", "on", "white", "black", "both",
   "old", "new"}

\* the test of lines 243 and 251
IsKeyWord(subpart) == subpart \notin ignore_words /\ Len(subpart) > 2

\* the keywords one whitespace-separated part gives
PartKeyWords(part) ==
  LET kept == SelectSeq(split_hyphen(part), IsKeyWord)
  IN  [i \in 1..Len(kept) |-> normalize_word(kept[i])]

RECURSIVE KeyWordsFrom(_, _)
\* lines 239-244 and 247-252: the keywords of the parts from the k-th on
KeyWordsFrom(parts, k) ==
  IF k > Len(parts) THEN <<>>
  ELSE PartKeyWords(parts[k]) \o KeyWordsFrom(parts, k + 1)

\* filter_parts / opening_parts of a lower-cased name
KeyWords(name_lower) ==
  Only({KeyWordsFrom(parts, 1) : parts \in {split(name_lower)}})

RECURSIVE MatchesFrom(_, _, _)
\* the loop of lines 227-261 over filters[k..]
MatchesFrom(opening_lower, filters, k) ==
  IF k > Len(filters) THEN FALSE
  ELSE Only({
    IF Contains(opening_lower, filter_lower) \/ Contains(filter_lower, opening_lower)
    THEN TRUE
    ELSE Only({
      IF /\ filter_parts # <<>>
         /\ opening_parts # <<>>
         /\ \E i \in 1..Len(filter_parts), j \in 1..Len(opening_parts) :
              filter_parts[i] = opening_parts[j]
      THEN TRUE
      ELSE MatchesFrom(opening_lower, filters, k + 1) :
        filter_parts \in {KeyWords(filter_lower)},
        opening_parts \in {KeyWords(opening_lower)}}) :
      filter_lower \in {lower(filters[k])}})

\* ChessComClient._matches_opening_filter
_matches_opening_filter(opening_name, filters) ==
  IF opening_name = "" THEN FALSE
  ELSE Only({MatchesFrom(opening_lower, filters, 1) :
               opening_lower \in {lower(opening_name)}})

(* ------------------------------------------------------------------ *)
(* The builder, the repertoire it hands out and the analysis loop of    *)
(* the /api/analyze handler                                             *)
(* ------------------------------------------------------------------ *)
VARIABLES
  studies,      \* RepertoireBuilder._studies
  repertoire,   \* RepertoireBuilder.repertoire
  built,        \* build() has returned the repertoire to the caller
  pc,           \* "idle", or "analyzed" between analyze_game and its caller
  game,         \* the game of the last analyze_game call
  username,     \* its username argument
  outcome,      \* what the call came to
  filter_call,  \* the arguments of a _matches_opening_filter call, and its
                \* return value once it has returned
  calls         \* the frames of the analyze_game calls that run side by side
                \* on the repertoire, one per caller

vars == <<studies, repertoire, built, pc, game, username, outcome, filter_call,
          calls>>

\* no call of the filter
NoFilterCall == [opening_name |-> "", filters |-> <<>>]


Players == {"Alice", "Bob"}
Usernames == {"alice"}

RECURSIVE SeqsUpTo(_, _)
\* the sequences over S of length at most n
SeqsUpTo(S, n) ==
  IF n = 0 THEN {<<>>}
  ELSE LET shorter == SeqsUpTo(S, n - 1)
       IN  shorter \cup {Append(s, m) : s \in shorter, m \in S}

\* the moves a game goes on with after its first move past the book
LaterMoves == {"e5", "Nf3"}

\* what a game plays after its in-book prefix: nothing, or any move of the
\* alphabet followed by at most MaxTail - 1 later moves
Tails ==
  {<<>>} \cup {<<m>> \o t : m \in Moves, t \in SeqsUpTo(LaterMoves, MaxTail - 1)}

\* RepertoireBuilder(): Repertoire() with two root nodes and an empty index
Init ==
  /\ studies = <<>>
  /\ repertoire = [white_tree |-> EmptyTree, black_tree |-> EmptyTree,
                   position_index |-> <<>>]
  /\ built = FALSE
  /\ pc = "idle"
  /\ game = NoGame
  /\ username = ""
  /\ outcome = NoOutcome
  /\ filter_call = NoFilterCall
  /\ calls = NoCalls

\* RepertoireBuilder.add_study
AddStudy(pgn, opening_name, study_name) ==
  /\ pc = "idle"
  /\ Len(studies) < MaxStudies
  /\ studies' = Append(studies, <<pgn, opening_name,
                                  IF Truthy(study_name) THEN study_name
                                  ELSE opening_name>>)
  /\ UNCHANGED <<calls, filter_call, repertoire, built, pc, game, username, outcome>>

\* RepertoireBuilder.build
Build ==
  /\ pc = "idle"
  /\ repertoire' = build(studies, repertoire)
  /\ built' = TRUE
  /\ UNCHANGED <<calls, filter_call, studies, pc, game, username, outcome>>

\* DeviationAnalyzer(repertoire).analyze_game(game, username)
AnalyzeGame(g, user) ==
  /\ game' = g
  /\ username' = user
  /\ outcome' = analyze_game(repertoire, g, user)
  /\ pc' = "analyzed"
  /\ UNCHANGED <<calls, filter_call, studies, repertoire, built>>

\* main.py lines 202-207: the caller takes the result and goes on to the
\* next game; an exception ends the request instead
NextGame ==
  /\ pc = "analyzed"
  /\ "returned" \in DOMAIN outcome
  /\ pc' = "idle"
  /\ game' = NoGame
  /\ username' = ""
  /\ outcome' = NoOutcome
  /\ UNCHANGED <<calls, filter_call, studies, repertoire, built>>

\* the games the model analyzes: a path of the repertoire followed by at
\* most MaxTail further moves
Games ==
  {[moves |-> p \o t, white |-> w, black |-> CHOOSE b \in Players : b # w,
    url |-> "https://www.chess.com/game/live/1"] :
     p \in DOMAIN repertoire.white_tree, t \in Tails, w \in Players}

Next ==
  \/ \E s \in StudyCatalog : AddStudy(s.pgn, s.opening_name, s.study_name)
  \/ Build
  \/ /\ pc = "idle"
     /\ built
     /\ \E g \in Games, user \in Usernames : AnalyzeGame(g, user)
  \/ NextGame

Spec == Init /\ [][Next]_vars

\* A builder holding one fan study of 1 to MaxFan replies: the repertoires
\* in which a node has many children.
InitFan ==
  /\ \E k \in 1..MaxFan : studies = << <<FanPgn(k), "Fan", "Fan">> >>
  /\ repertoire = [white_tree |-> EmptyTree, black_tree |-> EmptyTree,
                   position_index |-> <<>>]
  /\ built = FALSE
  /\ pc = "idle"
  /\ game = NoGame
  /\ username = ""
  /\ outcome = NoOutcome
  /\ filter_call = NoFilterCall
  /\ calls = NoCalls

NextFan ==
  \/ Build
  \/ /\ pc = "idle"
     /\ built
     /\ \E g \in Games, user \in Usernames : AnalyzeGame(g, user)
  \/ NextGame

SpecFan == InitFan /\ [][NextFan]_vars

\* the "date" values of the dated games: the end_time of the archive, written
\* as Python writes the value (None when the archive has no end_time)
Timestamps ==
  { None, "0", "-1", "946684799", "1709164800", "1709251200",
    "-62135510400", "253402300799", "253402300800",
    "67768036191676800", "9223372036854775807", "9223372036854775808",
    "'2024-02-29'" }

\* a game dict with its "date" key
Dated(g, date) ==
  [moves |-> g.moves, white |-> g.white, black |-> g.black, url |-> g.url,
   date |-> date]

\* A builder holding the one study with mainline 1.e4 e5 2.Nf3, and games
\* that carry a date.
InitDate ==
  /\ studies = << <<OpenPgn, "Open Game", "Open Game">> >>
  /\ repertoire = [white_tree |-> EmptyTree, black_tree |-> EmptyTree,
                   position_index |-> <<>>]
  /\ built = FALSE
  /\ pc = "idle"
  /\ game = NoGame
  /\ username = ""
  /\ outcome = NoOutcome
  /\ filter_call = NoFilterCall
  /\ calls = NoCalls

NextDate ==
  \/ Build
  \/ /\ pc = "idle"
     /\ built
     /\ \E g \in Games, date \in Timestamps, user \in Usernames :
          AnalyzeGame(Dated(g, date), user)
  \/ NextGame

SpecDate == InitDate /\ [][NextDate]_vars

\* a study whose first chapter starts from the position after 1.e4 (a FEN
\* header), so that its moves hang from the roots where they do not replay,
\* and whose other chapters reach one position by two move orders
CentrePgn ==
  << [Event |-> "Centre: Replies", Site |-> "?", setup |-> <<"e4">>,
      lines |-> << <<"e5", "Nf3">> >>],
     [Event |-> "Centre: e4 first", Site |-> "?", setup |-> <<>>,
      lines |-> << <<"e4", "e5", "d4", "d5">> >>],
     [Event |-> "Centre: d4 first", Site |-> "?", setup |-> <<>>,
      lines |-> << <<"d4", "e5", "e4">> >>] >>

\* A builder holding the centre study, alone or with the open game study
\* before or after it.
InitIndex ==
  /\ studies \in { << <<CentrePgn, "Centre", "Centre">> >>,
                   << <<CentrePgn, "Centre", "Centre">>,
                      <<OpenPgn, "Open Game", "Open Game">> >>,
                   << <<OpenPgn, "Open Game", "Open Game">>,
                      <<CentrePgn, "Centre", "Centre">> >> }
  /\ repertoire = [white_tree |-> EmptyTree, black_tree |-> EmptyTree,
                   position_index |-> <<>>]
  /\ built = FALSE
  /\ pc = "idle"
  /\ game = NoGame
  /\ username = ""
  /\ outcome = NoOutcome
  /\ filter_call = NoFilterCall
  /\ calls = NoCalls

SpecIndex == InitIndex /\ [][NextFan]_vars

\* number of names in a list of filters
MaxFilters == 2

\* opening names of archive games, as _extract_opening_from_eco gives them
\* ("" for a game without an eco URL)
OpeningNames ==
  { "", "Sicilian Defense Old Sicilian Variation", "Queens Gambit Declined",
    "Declined QG", "Italian Game", "Kings Pawn Opening", "Vienna Games",
    "Caro Kann Defense" }

\* study names used as filters (main.py line 182)
FilterNames ==
  { "", "Anti-Sicilians For Black", "Four Knights Sicilian", "QG Accepted",
    "The Italian Game", "King", "Vienna-Game", "Old Defence" }

\* ChessComClient is at rest with the arguments of one filter call in hand
InitFilter ==
  /\ studies = <<>>
  /\ repertoire = [white_tree |-> EmptyTree, black_tree |-> EmptyTree,
                   position_index |-> <<>>]
  /\ built = FALSE
  /\ pc = "idle"
  /\ game = NoGame
  /\ username = ""
  /\ outcome = NoOutcome
  /\ \E o \in OpeningNames, f \in SeqsUpTo(FilterNames, MaxFilters) :
       filter_call = [opening_name |-> o, filters |-> f]
  /\ calls = NoCalls

\* ChessComClient._matches_opening_filter(opening_name, filters)
MatchesOpeningFilter ==
  /\ "matched" \notin DOMAIN filter_call
  /\ filter_call' =
       [opening_name |-> filter_call.opening_name,
        filters |-> filter_call.filters,
        matched |-> _matches_opening_filter(filter_call.opening_name,
                                            filter_call.filters)]
  /\ UNCHANGED <<calls, studies, repertoire, built, pc, game, username, outcome>>

NextFilter == MatchesOpeningFilter

SpecFilter == InitFilter /\ [][NextFilter]_vars

\* the studies of the repertoire the callers share
CallStudies ==
  << <<OpenPgn, "Open Game", "Open Game">>, <<SicilianPgn, "Sicilian", "Sicilian">> >>

\* the games the callers analyze, as move list and White's name (the user is
\* White where White is Alice): no moves, a first move out of the repertoire,
\* the book followed to the last move of the game, a move of the opponent's
\* past a leaf, a move of the user's out of the book, a move of the
\* opponent's out of the book, and a book line that does not replay from the
\* starting position
CallLines ==
  { << <<>>, "Alice" >>,
    << <<"Nf3">>, "Alice" >>,
    << <<"e4">>, "Alice" >>,
    << <<"e4", "e5", "Nf3", "Nf6">>, "Bob" >>,
    << <<"e4", "e5", "Nf6">>, "Alice" >>,
    << <<"e4", "d5">>, "Alice" >>,
    << <<"e5", "Nf3">>, "Bob" >> }

CallGames ==
  {[moves |-> l[1], white |-> l[2], black |-> CHOOSE b \in Players : b # l[2],
    url |-> "https://www.chess.com/game/live/1"] : l \in CallLines}

\* A builder holding the two studies, and callers that have not called yet.
InitCalls ==
  /\ studies = CallStudies
  /\ repertoire = [white_tree |-> EmptyTree, black_tree |-> EmptyTree,
                   position_index |-> <<>>]
  /\ built = FALSE
  /\ pc = "idle"
  /\ game = NoGame
  /\ username = ""
  /\ outcome = NoOutcome
  /\ filter_call = NoFilterCall
  /\ calls = NoCalls

\* caller c calls DeviationAnalyzer(repertoire).analyze_game(g, user) and the
\* call runs to the head of its loop, or returns before it
CallAnalyzeGame(c, g, user) ==
  /\ built
  /\ calls[c].at = "out"
  /\ calls' = [calls EXCEPT ![c] = Enter(repertoire, g, user)]
  /\ UNCHANGED <<studies, repertoire, built, pc, game, username, outcome,
                 filter_call>>

\* the call of caller c runs one pass of its loop
LoopPass(c) ==
  /\ calls[c].at = "loop"
  /\ \E pass \in {Iterate(repertoire, calls[c])} :
       /\ repertoire' = pass.repertoire
       /\ calls' = [calls EXCEPT ![c] = pass.frame]
  /\ UNCHANGED <<studies, built, pc, game, username, outcome, filter_call>>

\* caller c takes the result of its call; an exception ends the caller
TakeResult(c) ==
  /\ calls[c].at = "done"
  /\ "returned" \in DOMAIN calls[c].result
  /\ calls' = [calls EXCEPT ![c] = NoFrame]
  /\ UNCHANGED <<studies, repertoire, built, pc, game, username, outcome,
                 filter_call>>

\* build() runs before the callers start and between their calls, never
\* during one: the callers work on a completed repertoire
NextCalls ==
  \/ /\ \A c \in Callers : calls[c].at = "out"
     /\ Build
  \/ \E c \in Callers, g \in CallGames, user \in Usernames :
       CallAnalyzeGame(c, g, user)
  \/ \E c \in Callers : LoopPass(c)
  \/ \E c \in Callers : TakeResult(c)

SpecCalls == InitCalls /\ [][NextCalls]_vars

(* ------------------------------------------------------------------ *)
(* Reading a state                                                      *)
(* ------------------------------------------------------------------ *)
Analyzed == pc = "analyzed"
Raised == "raised" \in DOMAIN outcome
ReturnedDict == ~Raised /\ outcome.returned = "dict"

\* the tree analyze_game selected for the game of the state
UserTree == get_tree(repertoire, UserColor(game, username))
UserIsWhite == UserColor(game, username) = WHITE

\* the node at path p exists and every move of p is a key of its parent
InTree(tree, p) ==
  /\ p \in DOMAIN tree
  /\ \A j \in 1..Len(p) : p[j] \in ChildKeys(tree, SubSeq(p, 1, j - 1))

\* the number of moves the game follows the tree from its root: the 0-based
\* index of the first out-of-book move, Len(moves) when there is none
BookLen(moves, tree) ==
  CHOOSE k \in 0..Len(moves) :
    /\ InTree(tree, SubSeq(moves, 1, k))
    /\ (k < Len(moves) => ~InTree(tree, SubSeq(moves, 1, k + 1)))

LeftBook == BookLen(game.moves, UserTree) < Len(game.moves)
OutIndex == BookLen(game.moves, UserTree)
OutMove == game.moves[OutIndex + 1]
Cursor == SubSeq(game.moves, 1, OutIndex)
CursorChildren == UserTree[Cursor].children
MoverIsUser == (OutIndex % 2 = 0) = UserIsWhite

\* the moves before the first out-of-book move replay on the board
PrefixReplays == Replay(Board, Cursor) # ValueError

OpenStudy == <<OpenPgn, "Open Game", "Open Game">>
OpenPaths == {<<>>, <<"e4">>, <<"e4", "e5">>, <<"e4", "e5", "Nf3">>}
\* the repertoire was built from the one study with mainline 1.e4 e5 2.Nf3
OpenRepertoire ==
  /\ built
  /\ studies = <<OpenStudy>>
  /\ DOMAIN repertoire.white_tree = OpenPaths
  /\ DOMAIN repertoire.black_tree = OpenPaths

AfterE4E5 == "rnbqkbnr/pppp1ppp/8/4p3/4P3/8/PPPP1PPP/RNBQKBNR w KQkq - 0 2"

(* ------------------------------------------------------------------ *)
(* C1                                                                   *)
(* ------------------------------------------------------------------ *)
\* C1: analyze_game never raises; when the first out-of-book move is the
\* user's and the cursor node has no children, it returns None.
C1_NeverRaises ==
  Analyzed =>
    /\ ~Raised
    /\ (LeftBook /\ MoverIsUser /\ CursorChildren = <<>> => outcome = ReturnNone)

(* ------------------------------------------------------------------ *)
(* C2                                                                   *)
(* ------------------------------------------------------------------ *)
C2_Case ==
  /\ Analyzed
  /\ OpenRepertoire
  /\ game.moves = <<"e4", "e5", "Nf6">>
  /\ lower(game.white) = lower(username)

\* C2 as claimed: on the 1.e4 e5 2.Nf3 repertoire the game e4 e5 Nf6 of a
\* White user gives opponent_left_book at move 2 with opponent_move Nf6.
C2_OpponentLeftBook ==
  C2_Case =>
    /\ ReturnedDict
    /\ outcome.value.result_type = "opponent_left_book"
    /\ outcome.value.move_number = 2
    /\ outcome.value.opponent_move = "Nf6"
    /\ outcome.value.opening_name = "Open Game"
    /\ outcome.value.fen = AfterE4E5

\* C2 amended: the third move is the White user's own, so the result is a
\* deviation at move 2 with your_move Nf6, correct_move Nf3 and one
\* variation, the study's opening label and the position after 1.e4 e5.
C2_Deviation ==
  C2_Case =>
    /\ ReturnedDict
    /\ outcome.value.result_type = "deviation"
    /\ outcome.value.move_number = 2
    /\ outcome.value.your_move = "Nf6"
    /\ outcome.value.correct_move = "Nf3"
    /\ outcome.value.opponent_move = None
    /\ outcome.value.variation_count = Count(1)
    /\ outcome.value.opening_name = "Open Game"
    /\ outcome.value.fen = AfterE4E5

C2_Witness == C2_Case /\ ReturnedDict /\ outcome.value.your_move = "Nf6"

(* ------------------------------------------------------------------ *)
(* C3                                                                   *)
(* ------------------------------------------------------------------ *)
\* C3: a game with no moves, or whose first move is not a key of the root
\* children of the user's tree, returns None whatever moves follow.
C3_Gate ==
  Analyzed /\ (game.moves = <<>> \/ game.moves[1] \notin ChildKeys(UserTree, <<>>))
    => outcome = ReturnNone

C3_Witness ==
  /\ Analyzed
  /\ Len(game.moves) >= 2
  /\ ChildKeys(UserTree, <<>>) # {}
  /\ game.moves[1] \notin ChildKeys(UserTree, <<>>)
  /\ game.moves[2] \in ChildKeys(UserTree, <<>>)
  /\ outcome = ReturnNone

(* ------------------------------------------------------------------ *)
(* C4                                                                   *)
(* ------------------------------------------------------------------ *)
\* the game of the state cut after its first out-of-book move and continued
\* with the moves of more
Continued(more) == [game EXCEPT !.moves = SubSeq(game.moves, 1, OutIndex + 1) \o more]

\* C4: the result depends only on the moves up to the first out-of-book
\* move: the game cut after that move, and the cut game continued with any
\* other moves, come to the same result as the game itself.
C4_FirstDivergenceOnly ==
  Analyzed /\ LeftBook =>
    \A more \in SeqsUpTo(LaterMoves, 1) :
      analyze_game(repertoire, Continued(more), username) = outcome

C4_Witness ==
  /\ Analyzed
  /\ LeftBook
  /\ OutIndex >= 1
  /\ Len(game.moves) > OutIndex + 1
  /\ MoverIsUser
  /\ ReturnedDict
  /\ OutMove # game.moves[OutIndex + 2]

(* ------------------------------------------------------------------ *)
(* C5                                                                   *)
(* ------------------------------------------------------------------ *)
Classified ==
  /\ ReturnedDict
  /\ IF MoverIsUser
     THEN /\ outcome.value.result_type = "deviation"
          /\ outcome.value.your_move = OutMove
          /\ outcome.value.correct_move # None
          /\ outcome.value.opponent_move = None
     ELSE /\ outcome.value.result_type = "opponent_left_book"
          /\ outcome.value.opponent_move = OutMove
          /\ outcome.value.your_move = None
          /\ outcome.value.correct_move = None

\* C5 as claimed: the first out-of-book move, at a cursor with at least one
\* child, is classified by its mover at whatever index it stands.
C5_ClassifiedAnywhere ==
  Analyzed /\ LeftBook /\ CursorChildren # <<>> => Classified

\* C5 amended: the classification holds for a first out-of-book move at an
\* index i >= 1 whose preceding moves replay on the board; at index 0 the
\* gate returns None, and so does a game whose in-book moves do not replay.
C5_ClassifiedPastGate ==
  Analyzed /\ LeftBook /\ CursorChildren # <<>> =>
    IF OutIndex >= 1 /\ PrefixReplays THEN Classified ELSE outcome = ReturnNone

C5_Witness ==
  /\ Analyzed
  /\ OpenRepertoire
  /\ game.moves = <<"e4", "c5">>
  /\ UserIsWhite
  /\ ReturnedDict
  /\ outcome.value.result_type = "opponent_left_book"

(* ------------------------------------------------------------------ *)
(* C6                                                                   *)
(* ------------------------------------------------------------------ *)
\* the summary the claim gives for n >= 2 options
Summary(n) ==
  CASE n = 2 -> "Multiple variations (1, 2)"
    [] n = 3 -> "Multiple variations (1, 2, 3)"
    [] n = 4 -> "Multiple variations (1, 2, 3, 4)"
    [] n = 5 -> "Multiple variations (1, 2, 3, 4, 5)"
    [] n > 5 -> "Multiple variations (1, 2, 3, 4, 5...)"

IsDeviation == Analyzed /\ ReturnedDict /\ outcome.value.result_type = "deviation"

\* C6: in a deviation at a cursor with n children, correct_move is the one
\* child's move when n = 1 and the summary of min(n, 5) indices, with "..."
\* exactly when n > 5, when n >= 2; variation_count is n.
C6_OptionFormat ==
  IsDeviation =>
    LET n == Len(CursorChildren)
    IN  /\ n >= 1
        /\ outcome.value.variation_count = Count(n)
        /\ outcome.value.correct_move =
             IF n = 1 THEN CursorChildren[1] ELSE Summary(n)

C6_Witness ==
  /\ IsDeviation
  /\ Len(CursorChildren) = 7
  /\ outcome.value.correct_move = "Multiple variations (1, 2, 3, 4, 5...)"
  /\ outcome.value.variation_count = Count(7)

(* ------------------------------------------------------------------ *)
(* C7                                                                   *)
(* ------------------------------------------------------------------ *)
\* C7: a game every move of which is a child of the node its preceding
\* moves reach returns None.
C7_FollowedBook ==
  Analyzed /\ game.moves # <<>> /\ ~LeftBook => outcome = ReturnNone

C7_Witness ==
  /\ Analyzed
  /\ Len(game.moves) >= 3
  /\ ~LeftBook
  /\ PrefixReplays
  /\ outcome = ReturnNone

(* ------------------------------------------------------------------ *)
(* C8                                                                   *)
(* ------------------------------------------------------------------ *)
\* C8: a game that follows a tree path down to a node with no children and
\* then has a further move, by either side, returns None.
C8_RanOutOfBook ==
  Analyzed /\ LeftBook /\ OutIndex >= 1 /\ CursorChildren = <<>>
    => outcome = ReturnNone

(* ------------------------------------------------------------------ *)
(* C9                                                                   *)
(* ------------------------------------------------------------------ *)
\* C9: after build() the two trees have the same move paths and the same
\* opening and study labels on every path, and is_your_turn is
\* complementary at every pair of corresponding nodes, the roots included.
C9_TreeSymmetry ==
  built =>
    /\ DOMAIN repertoire.white_tree = DOMAIN repertoire.black_tree
    /\ \A p \in DOMAIN repertoire.white_tree :
         LET w == repertoire.white_tree[p]
             b == repertoire.black_tree[p]
         IN  /\ w.children = b.children
             /\ w.opening_name = b.opening_name
             /\ w.study_name = b.study_name
             /\ w.is_your_turn = ~b.is_your_turn

(* ------------------------------------------------------------------ *)
(* C10                                                                  *)
(* ------------------------------------------------------------------ *)
\* the move tree of chapter c of study k contains the path p
Visits(k, c, p) ==
  \E i \in 1..Len(studies[k][1][c].lines) :
    LET line == studies[k][1][c].lines[i]
    IN  Len(line) >= Len(p) /\ SubSeq(line, 1, Len(p)) = p

\* the chapters whose move tree contains p, as <<study index, chapter index>>
Visitors(p) ==
  {kc \in UNION {{<<k, c>> : c \in 1..Len(studies[k][1])} : k \in 1..Len(studies)} :
     Visits(kc[1], kc[2], p)}

\* the last of them in processing order
LastVisitor(p) ==
  CHOOSE kc \in Visitors(p) :
    \A other \in Visitors(p) :
      other[1] < kc[1] \/ (other[1] = kc[1] /\ other[2] <= kc[2])

LabelsAreLastWrite ==
  \A tree \in {repertoire.white_tree, repertoire.black_tree} :
    \A p \in DOMAIN tree \ {<<>>} :
      /\ Visitors(p) # {}
      /\ LET kc == LastVisitor(p)
             study == studies[kc[1]]
         IN  /\ tree[p].opening_name = study[2]
             /\ tree[p].study_name =
                  study[3] \o " - " \o ChapterName(study[1][kc[2]], study[3])

\* C10: after build() every node carries the labels of the last processed
\* study, and in it the last chapter, whose move tree contains its path
\* (build is the one operation that changes the repertoire or hands it out).
C10_LastWriteWins ==
  [][repertoire' # repertoire \/ built' # built => LabelsAreLastWrite']_vars

\* a path of two studies carries the later one's label and a path only the
\* earlier one visits keeps the earlier one's
C10_Witness ==
  /\ built
  /\ Len(studies) = 2
  /\ studies[1] # studies[2]
  /\ LabelsAreLastWrite
  /\ \E p, q \in DOMAIN repertoire.white_tree \ {<<>>} :
       /\ {kc[1] : kc \in Visitors(p)} = {1, 2}
       /\ repertoire.white_tree[p].opening_name = studies[2][2]
       /\ {kc[1] : kc \in Visitors(q)} = {1}
       /\ repertoire.white_tree[q].opening_name = studies[1][2]

(* ------------------------------------------------------------------ *)
(* C11                                                                  *)
(* ------------------------------------------------------------------ *)
\* C11: build() called again on the builder right after build() returned,
\* no study added in between, returns an equal repertoire: both trees with
\* their paths, children, labels and is_your_turn, and the position index.
C11_BuildIdempotent ==
  [][repertoire' # repertoire \/ built' # built
       => build(studies', repertoire') = repertoire']_vars

\* a repertoire of two different studies, with labels overwritten and
\* positions indexed, that a further build() leaves as it is
C11_Witness ==
  /\ built
  /\ Len(studies) = 2
  /\ studies[1] # studies[2]
  /\ DOMAIN repertoire.position_index # {}
  /\ \E p \in DOMAIN repertoire.white_tree :
       Len(repertoire.white_tree[p].children) >= 2
  /\ build(studies, repertoire) = repertoire

(* ------------------------------------------------------------------ *)
(* C12                                                                  *)
(* ------------------------------------------------------------------ *)
\* the repertoire build() makes of the studies on a new builder
AsBuilt ==
  build(CallStudies, [white_tree |-> EmptyTree, black_tree |-> EmptyTree,
                      position_index |-> <<>>])

\* every call that has come to its end came to what analyze_game gives for
\* its game alone on the repertoire as it was built
ResultsStandAlone ==
  \A c \in Callers :
    calls[c].at = "done" =>
      calls[c].result = analyze_game(AsBuilt, calls[c].game, calls[c].username)

\* C12: whatever analyze_game calls ran before or are in flight side by side,
\* in every state they reach the builder's studies are the ones added and the
\* repertoire is the one build() returned (both trees with children, labels
\* and is_your_turn, and the position index), so that no call changed them,
\* and the result of every call is the result of its game analyzed alone on
\* that repertoire.
C12_AnalysisLeavesRepertoire ==
  built => /\ studies = CallStudies
           /\ repertoire = AsBuilt
           /\ ResultsStandAlone

\* two calls in flight at once on one repertoire, one walking the white tree
\* and one the black tree, each with passes of its loop behind it
C12_Witness ==
  /\ calls[1].at = "loop"
  /\ calls[2].at = "loop"
  /\ calls[1].i >= 2
  /\ calls[2].i >= 1
  /\ calls[1].user_color # calls[2].user_color
  /\ calls[1].game.moves # calls[2].game.moves
  /\ repertoire = AsBuilt

(* ------------------------------------------------------------------ *)
(* C13                                                                  *)
(* ------------------------------------------------------------------ *)
\* the calendar dates (UTC) of the epoch-seconds timestamps that name an
\* instant of the years 1 to 9999
CalendarDates ==
  [ t \in {"0", "-1", "946684799", "1709164800", "1709251200",
           "-62135510400", "253402300799"} |->
      CASE t = "0" -> "1970-01-01"
        [] t = "-1" -> "1969-12-31"
        [] t = "946684799" -> "1999-12-31"
        [] t = "1709164800" -> "2024-02-29"
        [] t = "1709251200" -> "2024-03-01"
        [] t = "-62135510400" -> "0001-01-02"
        [] t = "253402300799" -> "9999-12-31" ]

\* the call comes to a result: the game leaves the book past the gate, with
\* a move of the opponent or at a node that has children
ResultCase ==
  /\ Analyzed
  /\ LeftBook
  /\ OutIndex >= 1
  /\ PrefixReplays
  /\ (MoverIsUser => CursorChildren # <<>>)

\* C13: in a result, game_date is the YYYY-MM-DD date of a valid
\* epoch-seconds timestamp and None for any other value of the game's date,
\* and no value makes the call raise.
C13_DateConversion ==
  ResultCase /\ "date" \in DOMAIN game /\ game.date # None =>
    /\ ReturnedDict
    /\ outcome.value.game_date =
         IF game.date \in DOMAIN CalendarDates THEN CalendarDates[game.date]
         ELSE None

(* ------------------------------------------------------------------ *)
(* C14                                                                  *)
(* ------------------------------------------------------------------ *)
FilterCalled == "matched" \in DOMAIN filter_call

\* the words of a name: its maximal runs of characters other than the
\* space and the hyphen
WordsOf(s) ==
  {SubSeq(s, ij[1], ij[2]) :
     ij \in {ij \in (1..Len(s)) \X (1..Len(s)) :
               /\ ij[1] <= ij[2]
               /\ \A k \in ij[1]..ij[2] : Char(s, k) \notin {" ", "-"}
               /\ (ij[1] = 1 \/ Char(s, ij[1] - 1) \in {" ", "-"})
               /\ (ij[2] = Len(s) \/ Char(s, ij[2] + 1) \in {" ", "-"})}}

\* a word without its final "s" when it has more than 3 characters
Singular(w) ==
  IF Len(w) > 3 /\ SubSeq(w, Len(w), Len(w)) = "s"
  THEN SubSeq(w, 1, Len(w) - 1) ELSE w

\* the normalized keyword tokens of a name whose words have more than
\* shortest characters
TokensOf(name, shortest) ==
  {Singular(w) : w \in {w \in WordsOf(lower(name)) \ ignore_words : Len(w) > shortest}}

\* some filter of the list and the name contain one another or share a token
SomeFilterMatches(name, filters, shortest) ==
  \E k \in 1..Len(filters) :
    \/ Contains(lower(name), lower(filters[k]))
    \/ Contains(lower(filters[k]), lower(name))
    \/ TokensOf(name, shortest) \cap TokensOf(filters[k], shortest) # {}

\* C14 as claimed: the name matches exactly when some filter and the name
\* contain one another or share a normalized keyword token.
C14_MatchAsStated ==
  FilterCalled =>
    filter_call.matched =
      SomeFilterMatches(filter_call.opening_name, filter_call.filters, 0)

\* C14 amended: an empty name matches nothing, and only words of more than 2
\* characters count as keyword tokens; with that the name matches exactly
\* when some filter and the name contain one another or share a token.
C14_MatchNonEmptyLongTokens ==
  FilterCalled =>
    filter_call.matched =
      (/\ filter_call.opening_name # ""
       /\ SomeFilterMatches(filter_call.opening_name, filter_call.filters, 2))

\* the example of the claim: matched through the token "sicilian" alone
C14_Witness ==
  /\ FilterCalled
  /\ filter_call.opening_name = "Sicilian Defense Old Sicilian Variation"
  /\ filter_call.filters = <<"Anti-Sicilians For Black">>
  /\ filter_call.matched = TRUE
  /\ ~Contains(lower(filter_call.opening_name), lower(filter_call.filters[1]))
  /\ ~Contains(lower(filter_call.filters[1]), lower(filter_call.opening_name))
  /\ TokensOf(filter_call.opening_name, 2) \cap TokensOf(filter_call.filters[1], 2)
       = {"sicilian"}

(* ------------------------------------------------------------------ *)
(* C15                                                                  *)
(* ------------------------------------------------------------------ *)
AfterE4E5Nf3 == "rnbqkbnr/pppp1ppp/8/4p3/4P3/5N2/PPPP1PPP/RNBQKB1R b KQkq - 1 2"

\* C15: a result is returned only for a game that leaves the book; with i
\* the 0-based index of its first out-of-book move, move_number is
\* (i // 2) + 1 and fen is the FEN of the position after moves 0..i-1, the
\* move at i not made.
C15_NumberAndPosition ==
  Analyzed /\ ReturnedDict =>
    /\ LeftBook
    /\ outcome.value.move_number = (OutIndex \div 2) + 1
    /\ outcome.value.fen = fen(Replay(Board, SubSeq(game.moves, 1, OutIndex)))

\* a game that leaves the book at index 3: move 2, position after 2.Nf3
C15_Witness ==
  /\ Analyzed
  /\ ReturnedDict
  /\ OutIndex = 3
  /\ SubSeq(game.moves, 1, 3) = <<"e4", "e5", "Nf3">>
  /\ outcome.value.move_number = 2
  /\ outcome.value.fen = AfterE4E5Nf3

(* ------------------------------------------------------------------ *)
(* C16                                                                  *)
(* ------------------------------------------------------------------ *)
\* the title of a chapter: its Event header, "?" when the PGN has none
Title(chapter) == chapter.Event
HasTitle(chapter) == Title(chapter) \notin {"?", ""}
HasColon(s) == \E i \in 1..Len(s) : SubSeq(s, i, i) = ":"

\* the study label the claim gives the nodes of a chapter of a study, None
\* where it gives none (a title without a colon)
StatedLabel(study, chapter) ==
  IF HasTitle(chapter) /\ HasColon(Title(chapter))
  THEN study[3] \o " - " \o strip(AfterFirstColon(Title(chapter)))
  ELSE IF ~HasTitle(chapter) THEN study[3]
  ELSE None

\* every node whose last visitor is a chapter with a colon in its title, or
\* one without a title, carries the label the claim gives it
LabelsAsStated ==
  \A tree \in {repertoire.white_tree, repertoire.black_tree} :
    \A p \in DOMAIN tree \ {<<>>} :
      LET kc == LastVisitor(p)
          stated == StatedLabel(studies[kc[1]], studies[kc[1]][1][kc[2]])
      IN  stated # None => tree[p].study_name = stated

\* C16: after build() the nodes of a chapter whose title has a colon are
\* labelled "{study label} - {text after the first colon}", and the nodes
\* of a chapter without a title carry the study label unchanged.
C16_ChapterLabel ==
  [][repertoire' # repertoire \/ built' # built => LabelsAsStated']_vars

(* ------------------------------------------------------------------ *)
(* C17                                                                  *)
(* ------------------------------------------------------------------ *)
\* the nodes of the white tree that have an opening label and whose path
\* replays from the starting position
IndexedNodes ==
  {p \in DOMAIN repertoire.white_tree :
     /\ repertoire.white_tree[p].opening_name # None
     /\ Replay(Board, p) # ValueError}

NodeFen(p) == fen(Replay(Board, p))

\* what the index holds for a node: labels and number of children
NodeEntry(p) ==
  <<repertoire.white_tree[p].opening_name,
    repertoire.white_tree[p].study_name,
    Len(repertoire.white_tree[p].children)>>

StartFen == "rnbqkbnr/pppppppp/8/8/8/8/PPPPPPPP/RNBQKBNR w KQkq - 0 1"
CentreFen == "rnbqkbnr/pppp1ppp/8/4p3/3PP3/8/PPP2PPP/RNBQKBNR b KQkq - 0 2"

\* C17: once build() has run, the keys of the position index are the FENs
\* of the labelled white-tree nodes whose path replays, each mapped to the
\* labels and child count some such node of that FEN has in the tree as it
\* stands; the starting position has no entry, and neither has a node at or
\* below a move that does not replay.
C17_IndexMatchesTree ==
  built =>
    /\ DOMAIN repertoire.position_index = {NodeFen(p) : p \in IndexedNodes}
    /\ \A p \in IndexedNodes :
         \E q \in IndexedNodes :
           /\ NodeFen(q) = NodeFen(p)
           /\ repertoire.position_index[NodeFen(p)] = NodeEntry(q)
    /\ StartFen \notin DOMAIN repertoire.position_index

\* the root has a child that does not replay before children that do, the
\* subtree of the first is left out, and one indexed position is that of
\* two nodes with different entries
C17_Witness ==
  /\ built
  /\ repertoire.white_tree[<<>>].children[1] = "e5"
  /\ <<"e5", "Nf3">> \in DOMAIN repertoire.white_tree \ IndexedNodes
  /\ {<<"e4">>, <<"d4">>, <<"e4", "e5", "d4">>, <<"d4", "e5", "e4">>} \subseteq IndexedNodes
  /\ NodeFen(<<"e4", "e5", "d4">>) = CentreFen
  /\ NodeFen(<<"d4", "e5", "e4">>) = CentreFen
  /\ NodeEntry(<<"e4", "e5", "d4">>) # NodeEntry(<<"d4", "e5", "e4">>)
  /\ repertoire.position_index[CentreFen] = <<"Centre", "Centre - d4 first", 0>>
  /\ C17_IndexMatchesTree

(* ------------------------------------------------------------------ *)
(* C18                                                                  *)
(* ------------------------------------------------------------------ *)
\* C18: in each tree, at every node whose path replays from the starting
\* position, is_your_turn is true exactly when the side to move in the
\* position after the path is the colour of the tree.
C18_TurnIsSideToMove ==
  built =>
    \A color \in {WHITE, BLACK} :
      \A p \in DOMAIN get_tree(repertoire, color) :
        Replay(Board, p) # ValueError =>
          get_tree(repertoire, color)[p].is_your_turn
            = (Replay(Board, p).turn = color)

(* ------------------------------------------------------------------ *)
(* C19                                                                  *)
(* ------------------------------------------------------------------ *)
\* every path of tree old is a path of tree new, with the children it had
\* as the first of its children and with its is_your_turn
Grown(old, new) ==
  /\ DOMAIN old \subseteq DOMAIN new
  /\ \A p \in DOMAIN old :
       /\ Len(new[p].children) >= Len(old[p].children)
       /\ SubSeq(new[p].children, 1, Len(old[p].children)) = old[p].children
       /\ new[p].is_your_turn = old[p].is_your_turn

\* two trees differ at most in the labels of their nodes
SameButLabels(old, new) ==
  /\ DOMAIN old = DOMAIN new
  /\ \A p \in DOMAIN old :
       /\ new[p].children = old[p].children
       /\ new[p].is_your_turn = old[p].is_your_turn

\* processing any one chapter of the studies ss on the trees of repertoire rr
\* loses nothing, and changes only labels when done a second time
ChaptersGrowTrees(ss, rr) ==
  \A k \in 1..Len(ss) :
    \A c \in 1..Len(ss[k][1]) :
      \A before \in {[white_tree |-> rr.white_tree, black_tree |-> rr.black_tree]} :
        \A once \in {_process_game(ss[k][1][c], before, ss[k][2], ss[k][3])} :
          \A twice \in {_process_game(ss[k][1][c], once, ss[k][2], ss[k][3])} :
            /\ Grown(before.white_tree, once.white_tree)
            /\ Grown(before.black_tree, once.black_tree)
            /\ SameButLabels(once.white_tree, twice.white_tree)
            /\ SameButLabels(once.black_tree, twice.black_tree)

\* the paths of each tree are the root and the paths of the move trees of
\* the chapters, and the children keys of a node are the moves the chapters
\* have after its path
ChildrenAreUnion ==
  \A tree \in {repertoire.white_tree, repertoire.black_tree} :
    /\ \A p \in DOMAIN tree : p = <<>> \/ Visitors(p) # {}
    /\ \A p \in DOMAIN tree :
         ChildKeys(tree, p) = {m \in Moves : Visitors(Append(p, m)) # {}}

\* C19: a build() step, a repeated one included, removes no path from
\* either tree, keeps every node's children (new keys come after them) and
\* is_your_turn, and leaves each node with the union of the moves its path
\* has in the processed chapters as children keys; the same for the
\* processing of any single chapter on the trees the step leaves.
C19_MonotonicGrowth ==
  [][repertoire' # repertoire \/ built' # built =>
       /\ Grown(repertoire.white_tree, repertoire'.white_tree)
       /\ Grown(repertoire.black_tree, repertoire'.black_tree)
       /\ ChildrenAreUnion'
       /\ \A ss \in {studies'}, rr \in {repertoire'} : ChaptersGrowTrees(ss, rr)]_vars

\* a second study has gone over the nodes of the first: the children of the
\* first are kept in front, the labels are the second's
C19_Witness ==
  /\ built
  /\ Len(studies) = 2
  /\ studies[1][2] = "Open Game"
  /\ studies[2][2] = "Sicilian"
  /\ repertoire.white_tree[<<"e4">>].children = <<"e5", "c5">>
  /\ repertoire.white_tree[<<"e4", "e5">>].children = <<"Nf3", "d4">>
  /\ repertoire.white_tree[<<"e4", "e5">>].opening_name = "Sicilian"
  /\ repertoire.white_tree[<<"e4", "e5", "Nf3">>].opening_name = "Open Game"
  /\ ChildrenAreUnion
====
